---------------------------- MODULE Spec2Model ----------------------------
(***************************************************************************)
(* State-machine model of Happy_Customer_Bank/src/experiment_utils.py:     *)
(*   - create_models / set_model_params (object heap, growing list zip),   *)
(*   - the save_result_data decorator around the experiment runners,       *)
(*   - the per-fold tasks of evaluate_discrimination_thresholds.           *)
(* Python objects are heap cells addressed by an identity (an index into   *)
(* `heap`), so that aliasing and copying are distinguishable.              *)
(***************************************************************************)
EXTENDS Integers, Sequences, FiniteSets, TLC

(***************************************************************************)
(* Bounds of the model.                                                    *)
(***************************************************************************)
MaxBase == 2        \* longest base_models list
MaxParams == 2      \* longest model_params list
MaxList == 2        \* longest list-of-dicts element of model_params
MaxEdits == 1       \* caller-side set_params calls after create_models returned
MaxModels == 2      \* longest `models` list of an experiment runner
MaxConfigs == 2     \* longest preprocessors / selection_thresholds list
MaxEstimators == 2  \* longest `estimators` list
MaxFiles == 3       \* most files in the results folder

(***************************************************************************)
(* Program constants.                                                      *)
(***************************************************************************)
RANDOM_STATE == 42
N_SPLITS == 5       \* CV_SCHEME = StratifiedKFold(n_splits=5, ...)

VARIABLES
    \* ---- create_models ----
    heap,           \* object identity -> [cls, params]
    base_models,    \* the caller's list (identities)
    model_params,   \* the caller's model_params (<<>> stands for None or [])
    models,         \* the list create_models builds and returns
    zipPos,         \* elements already drawn by zip(models, model_params)
    innerPos,       \* items already handled of the current list element
    cmPc,           \* "start" | "loop" | "inner" | "done" | "raised"
    cmExc,          \* "none" | "ValueError" | "TypeError"
    lastCall,       \* the last heap operation: [op, orig, ret, val]
    calls,          \* history: <<orig, ret>> of every set_model_params call
    edits,          \* caller-side edits made after the return
    \* ---- a decorated experiment runner called through save_result_data ----
    func,           \* which decorated function is called
    runModels,      \* the `models` argument
    preprocessors,  \* names of the (name, preprocessor) pairs
    thresholds,     \* selection_thresholds, in units of 0.00001
    nGrids,         \* len(grids) of randomized_search
    pathArg,        \* how save_results_path is passed: [mode, value]
    addArg,         \* how save_additional_results_path is passed
    outerPos,       \* completed iterations of the outer loop
    loopPos,        \* completed iterations of the current inner loop
    results,        \* the function's `results` list
    testScores,     \* keys of randomized_search's test_scores dict
    artifacts,      \* model artifacts dumped by randomized_search
    attempts,       \* history: the external fit/score calls made, in order
    libRaised,      \* history: an external fit/score call raised
    runPc,          \* "running" | "returned" | "done" | "raised"
    runExc,         \* the exception the caller sees
    funcRet,        \* what the decorated function returned
    wrapRet,        \* what the wrapper returned to the caller
    csvFile,        \* the file at save_results_path
    pklFile,        \* the file at save_additional_results_path
    warnCalls,      \* calls of warnings.warn made
    warnShown,      \* warnings that passed the warnings filter
    warnFilters,    \* warnings.filters, first match first
    \* ---- evaluate_discrimination_thresholds ----
    nEstimators,    \* len(estimators)
    evalThresholds, \* the `thresholds` argument, in hundredths
    foldData,       \* per fold of CV_SCHEME.split(X, y): the labels of its
                    \* test part, and the probabilities a model fitted on its
                    \* training part gives for its test part, in hundredths
    callerIndex,    \* index of the caller's X and y
    localIndex,     \* index of the function's own X and y ("none": not made)
    estFitted,      \* caller's estimators: 0 unfitted, else the fold fitted on
    curEst,         \* position of the estimator loop
    evalPc,         \* "start" | "dispatch" | "parallel" | "done"
    taskPc,         \* per fold: "pending" | "sliced" | "copied" | "fitted" | "done"
    copyFitted,     \* per fold: its estimator_copy, 0 unfitted, else fold fitted on
    foldResults,    \* per fold: the (y_test, y_proba) the task returned
    finished,       \* history: the order in which the tasks completed
    resultsPerFold, \* results_per_fold as Parallel returned it
    evalResults,    \* `results`, per estimator handled: (f1_scores,
                    \* precision_scores, recall_scores, g_mean_scores)
    optimal_thresholds,
    fitLog,         \* history of fit calls: <<estimator position, task,
                    \* object fitted, fold whose task owns that object>>
    \* ---- load_results_from_folder ----
    folder,         \* os.listdir(folder_path): the files, in listing order
    listPos,        \* files already handled by the loop
    loaded,         \* the `results` list: one frame (its row count) per file read
    loadPc,         \* "loop" | "done" | "raised"
    loadExc,        \* the exception the caller sees
    loadRet         \* what load_results_from_folder returned

cmVars == <<heap, base_models, model_params, models, zipPos, innerPos,
            cmPc, cmExc, lastCall, calls, edits>>

runVars == <<func, runModels, preprocessors, thresholds, nGrids, pathArg,
             addArg, outerPos, loopPos, results, testScores, artifacts,
             attempts, libRaised, runPc, runExc, funcRet, wrapRet, csvFile,
             pklFile, warnCalls, warnShown, warnFilters>>

foldVars == <<nEstimators, evalThresholds, foldData, callerIndex, localIndex,
              estFitted, curEst, evalPc, taskPc, copyFitted, foldResults,
              finished, resultsPerFold, evalResults, optimal_thresholds,
              fitLog>>

loadVars == <<folder, listPos, loaded, loadPc, loadExc, loadRet>>

vars == <<cmVars, runVars, foldVars, loadVars>>

(***************************************************************************)
(* Model classes: which constructor parameters get_params() reports.       *)
(***************************************************************************)
ModelClasses == {"RandomForestClassifier", "HistGradientBoostingClassifier"}

HasNJobs(cls) == cls = "RandomForestClassifier"

ParamKeys(cls) ==
    IF HasNJobs(cls)
    THEN {"random_state", "n_jobs", "n_estimators"}
    ELSE {"random_state", "n_estimators"}

\* a freshly constructed estimator: n_estimators=100, the rest None (0)
DefaultParams(cls) ==
    [k \in ParamKeys(cls) |-> IF k = "n_estimators" THEN 100 ELSE 0]

NewModel(cls) == [cls |-> cls, params |-> DefaultParams(cls)]

(***************************************************************************)
(* Values a caller can put in model_params.  A dict element is             *)
(* {"n_estimators": val}; "other" is any value that is neither a dict nor  *)
(* a list (None, a number, a string, a tuple).                             *)
(***************************************************************************)
DictVals == {10}

DictItem(v) == [kind |-> "dict", val |-> v, items |-> <<>>]
OtherItem == [kind |-> "other", val |-> 0, items |-> <<>>]
Items == {DictItem(v) : v \in DictVals} \cup {OtherItem}

SeqsUpTo(S, n) == UNION {[1..k -> S] : k \in 0..n}

ListElem(its) == [kind |-> "list", val |-> 0, items |-> its]
Elements == Items \cup {ListElem(its) : its \in SeqsUpTo(Items, MaxList)}

EditVals == {30}

Kwargs(item) == [n_estimators |-> item.val]

(***************************************************************************)
(* estimator.set_params with keyword arguments kw: updates the object in   *)
(* place.                                                                  *)
(***************************************************************************)
SetParamsOn(h, id, kw) ==
    [h EXCEPT ![id].params =
        [k \in DOMAIN h[id].params |->
            IF k \in DOMAIN kw THEN kw[k] ELSE h[id].params[k]]]

(***************************************************************************)
(* copy.deepcopy(model): a fresh identity holding an equal object.         *)
(***************************************************************************)
DeepCopy(h, id) == Append(h, h[id])

(***************************************************************************)
(* set_model_params(model, model_params): the heap after the call and the  *)
(* identity returned.                                                      *)
(***************************************************************************)
SetModelParamsInPlace(h, id, kw) ==
    [heap |-> SetParamsOn(h, id, kw), ret |-> id]

set_model_params(h, id, kw) ==
    [heap |-> SetParamsOn(DeepCopy(h, id), Len(h) + 1, kw), ret |-> Len(h) + 1]

(***************************************************************************)
(* create_models, lines 78-81: every base model is configured in place and *)
(* the list starts as the base models themselves.                          *)
(***************************************************************************)
RECURSIVE ConfigureAll(_, _)
ConfigureAll(h, ids) ==
    IF ids = <<>> THEN h
    ELSE LET id == Head(ids)
             kw == IF "n_jobs" \in DOMAIN h[id].params
                   THEN [random_state |-> RANDOM_STATE, n_jobs |-> -1]
                   ELSE [random_state |-> RANDOM_STATE]
         IN ConfigureAll(SetParamsOn(h, id, kw), Tail(ids))

NoCall == [op |-> "none", orig |-> 0, ret |-> 0, val |-> 0]

CmInit ==
    /\ \E classes \in SeqsUpTo(ModelClasses, MaxBase) :
          /\ heap = [k \in 1..Len(classes) |-> NewModel(classes[k])]
          /\ base_models = [k \in 1..Len(classes) |-> k]
    /\ model_params \in SeqsUpTo(Elements, MaxParams)
    /\ models = <<>>
    /\ zipPos = 0
    /\ innerPos = 0
    /\ cmPc = "start"
    /\ cmExc = "none"
    /\ lastCall = NoCall
    /\ calls = {}
    /\ edits = 0

\* lines 78-83: configure the base models; `if model_params:` is false for
\* None and for an empty list.
CmStart ==
    /\ UNCHANGED <<runVars, foldVars, loadVars>>
    /\ cmPc = "start"
    /\ heap' = ConfigureAll(heap, base_models)
    /\ models' = base_models
    /\ cmPc' = IF model_params # <<>> THEN "loop" ELSE "done"
    /\ lastCall' = NoCall
    /\ UNCHANGED <<base_models, model_params, zipPos, innerPos, cmExc, calls, edits>>

\* zip(models, model_params) asks the list iterator over `models` first: it
\* sees the list as it is now, appended models included.
ZipHasNext == zipPos < Len(models) /\ zipPos < Len(model_params)

CurModel == models[zipPos + 1]
CurElem == model_params[zipPos + 1]

\* line 96: the zip is exhausted, the list is returned.
CmReturn ==
    /\ UNCHANGED <<runVars, foldVars, loadVars>>
    /\ cmPc = "loop"
    /\ ~ZipHasNext
    /\ cmPc' = "done"
    /\ lastCall' = NoCall
    /\ UNCHANGED <<heap, base_models, model_params, models, zipPos, innerPos,
                   cmExc, calls, edits>>

\* A variant that puts the configured copy in the place of the model it was
\* made from instead of appending it.
CmDictReplace ==
    /\ UNCHANGED <<runVars, foldVars, loadVars>>
    /\ cmPc = "loop"
    /\ ZipHasNext
    /\ CurElem.kind = "dict"
    /\ LET r == set_model_params(heap, CurModel, Kwargs(CurElem))
       IN /\ heap' = r.heap
          /\ models' = [models EXCEPT ![zipPos + 1] = r.ret]
          /\ lastCall' = [op |-> "set_model_params", orig |-> CurModel,
                           ret |-> r.ret, val |-> CurElem.val]
          /\ calls' = calls \cup {<<CurModel, r.ret>>}
    /\ zipPos' = zipPos + 1
    /\ UNCHANGED <<base_models, model_params, innerPos, cmPc, cmExc, edits>>

\* lines 89-91: a dict element.
CmDict ==
    /\ UNCHANGED <<runVars, foldVars, loadVars>>
    /\ cmPc = "loop"
    /\ ZipHasNext
    /\ CurElem.kind = "dict"
    /\ LET r == set_model_params(heap, CurModel, Kwargs(CurElem))
       IN /\ heap' = r.heap
          /\ models' = Append(models, r.ret)
          /\ lastCall' = [op |-> "set_model_params", orig |-> CurModel,
                           ret |-> r.ret, val |-> CurElem.val]
          /\ calls' = calls \cup {<<CurModel, r.ret>>}
    /\ zipPos' = zipPos + 1
    /\ UNCHANGED <<base_models, model_params, innerPos, cmPc, cmExc, edits>>

\* line 85: a list element starts the inner loop.
CmList ==
    /\ UNCHANGED <<runVars, foldVars, loadVars>>
    /\ cmPc = "loop"
    /\ ZipHasNext
    /\ CurElem.kind = "list"
    /\ cmPc' = "inner"
    /\ innerPos' = 0
    /\ lastCall' = NoCall
    /\ UNCHANGED <<heap, base_models, model_params, models, zipPos, cmExc, calls, edits>>

\* lines 92-94: neither a list nor a dict.
CmInvalid ==
    /\ UNCHANGED <<runVars, foldVars, loadVars>>
    /\ cmPc = "loop"
    /\ ZipHasNext
    /\ CurElem.kind = "other"
    /\ cmPc' = "raised"
    /\ cmExc' = "ValueError"
    /\ lastCall' = NoCall
    /\ UNCHANGED <<heap, base_models, model_params, models, zipPos, innerPos, calls, edits>>

\* lines 86-88: one item of a list element that is a dict.
CmInnerDict ==
    /\ UNCHANGED <<runVars, foldVars, loadVars>>
    /\ cmPc = "inner"
    /\ innerPos < Len(CurElem.items)
    /\ CurElem.items[innerPos + 1].kind = "dict"
    /\ LET r == set_model_params(heap, CurModel, Kwargs(CurElem.items[innerPos + 1]))
       IN /\ heap' = r.heap
          /\ models' = Append(models, r.ret)
          /\ lastCall' = [op |-> "set_model_params", orig |-> CurModel,
                           ret |-> r.ret, val |-> CurElem.items[innerPos + 1].val]
          /\ calls' = calls \cup {<<CurModel, r.ret>>}
    /\ innerPos' = innerPos + 1
    /\ UNCHANGED <<base_models, model_params, zipPos, cmPc, cmExc, edits>>

\* lines 52-53 reached from line 87 with an item that is no mapping: the
\* copy is made, then unpacking it as keyword arguments raises TypeError.
CmInnerNotMapping ==
    /\ UNCHANGED <<runVars, foldVars, loadVars>>
    /\ cmPc = "inner"
    /\ innerPos < Len(CurElem.items)
    /\ CurElem.items[innerPos + 1].kind = "other"
    /\ heap' = DeepCopy(heap, CurModel)
    /\ cmPc' = "raised"
    /\ cmExc' = "TypeError"
    /\ lastCall' = NoCall
    /\ UNCHANGED <<base_models, model_params, models, zipPos, innerPos, calls, edits>>

\* the inner loop is over: the zip advances.
CmInnerEnd ==
    /\ UNCHANGED <<runVars, foldVars, loadVars>>
    /\ cmPc = "inner"
    /\ innerPos = Len(CurElem.items)
    /\ cmPc' = "loop"
    /\ zipPos' = zipPos + 1
    /\ innerPos' = 0
    /\ lastCall' = NoCall
    /\ UNCHANGED <<heap, base_models, model_params, models, cmExc, calls, edits>>

\* After the return the caller changes one of the returned models in place
\* (model.set_params(n_estimators=v)).
CallerEdits ==
    /\ UNCHANGED <<runVars, foldVars, loadVars>>
    /\ cmPc = "done"
    /\ edits < MaxEdits
    /\ \E k \in 1..Len(models), v \in EditVals :
          /\ heap' = SetParamsOn(heap, models[k], [n_estimators |-> v])
          /\ lastCall' = [op |-> "edit", orig |-> 0, ret |-> models[k], val |-> v]
    /\ edits' = edits + 1
    /\ UNCHANGED <<base_models, model_params, models, zipPos, innerPos, cmPc,
                   cmExc, calls>>

CmNext ==
    \/ CmStart
    \/ CmReturn
    \/ CmDict
    \/ CmList
    \/ CmInvalid
    \/ CmInnerDict
    \/ CmInnerNotMapping
    \/ CmInnerEnd
    \/ CallerEdits

(***************************************************************************)
(* The decorated experiment runners.                                       *)
(***************************************************************************)
HANDLE_MISSINGS_MODELS ==
    {"HistGradientBoostingClassifier", "BaggingClassifier",
     "BalancedBagging_OverSampling", "BalancedBagging_UnderSampling"}

Estimator(cls, sampler) == [cls |-> cls, sampler |-> sampler]

\* the estimators a caller passes in `models`
Estimators ==
    {Estimator("RandomForestClassifier", "-"),
     Estimator("HistGradientBoostingClassifier", "-"),
     Estimator("BalancedBaggingClassifier", "RandomUnderSampler"),
     Estimator("BalancedBaggingClassifier", "RandomOverSampler")}

ImputerNames == {"none", "SimpleImputer", "KNNImputer"}
EncoderNames == {"OneHotEncoder", "TargetEncoder"}
ThresholdVals == {12, 100, 2500}     \* 0.00012, 0.001, 0.025

Funcs == {"imputation_test", "cat_encoding_test", "feature_selection_test",
          "randomized_search"}

\* prepare_models_info: the name a model is recorded under
ModelName(m) ==
    IF m.cls = "BalancedBaggingClassifier"
    THEN IF m.sampler = "RandomUnderSampler"
         THEN "BalancedBagging_UnderSampling"
         ELSE "BalancedBagging_OverSampling"
    ELSE m.cls

\* a variant that records the threshold as it is
Round4Exact(t) == t

\* np.round(threshold, 4) on a threshold given in units of 0.00001: the
\* nearest multiple of 0.0001, a tie going to the even one.
Round4(t) ==
    LET q == t \div 10
        r == t % 10
    IN IF r < 5 THEN 10 * q
       ELSE IF r > 5 THEN 10 * (q + 1)
       ELSE IF q % 2 = 0 THEN 10 * q ELSE 10 * (q + 1)

\* an optional path argument: not passed, or passed positionally or by
\* keyword with the value None, "" or a path
NotPassed == [mode |-> "absent", value |-> "None"]
PathArgs ==
    {NotPassed} \cup
    [mode : {"positional", "keyword"}, value : {"None", "", "out.csv"}]
AddArgs ==
    {NotPassed} \cup
    [mode : {"positional", "keyword"}, value : {"None", "", "scores.pkl"}]

\* Python truth value of a path
Truthy(value) == value \notin {"None", ""}

\* kwargs.get(name, None) in the wrapper: only keyword arguments are seen
KwargsGet(arg) == IF arg.mode = "keyword" THEN arg.value ELSE "None"

NoFile == [written |-> FALSE, rows |-> <<>>]
NoPkl == [written |-> FALSE, keys |-> {}]
NoReturn == [kind |-> "none", rows |-> <<>>, extra |-> {}]

RunInit ==
    /\ func \in Funcs
    /\ runModels \in SeqsUpTo(Estimators, MaxModels)
    /\ preprocessors \in
          IF func = "imputation_test" THEN SeqsUpTo(ImputerNames, MaxConfigs)
          ELSE IF func = "cat_encoding_test" THEN SeqsUpTo(EncoderNames, MaxConfigs)
          ELSE {<<>>}
    /\ thresholds \in
          IF func = "feature_selection_test"
          THEN SeqsUpTo(ThresholdVals, MaxConfigs) ELSE {<<>>}
    /\ nGrids \in IF func = "randomized_search" THEN 0..MaxModels ELSE {0}
    /\ pathArg \in PathArgs
    /\ addArg \in IF func = "randomized_search" THEN AddArgs ELSE {NotPassed}
    /\ outerPos = 0
    /\ loopPos = 0
    /\ results = <<>>
    /\ testScores = {}
    /\ artifacts = {}
    /\ attempts = <<>>
    /\ libRaised = FALSE
    /\ runPc = "running"
    /\ runExc = "none"
    /\ funcRet = NoReturn
    /\ wrapRet = NoReturn
    /\ csvFile = NoFile
    /\ pklFile = NoPkl
    /\ warnCalls = 0
    /\ warnShown = 0
    \* line 22: filterwarnings("ignore") puts an ignore-everything filter in
    \* front of the interpreter's default filters when the module is imported
    /\ warnFilters = <<"ignore", "default">>

\* the two nested loops of the three *_test functions
OuterList ==
    IF func = "feature_selection_test" THEN thresholds ELSE runModels
InnerList ==
    IF func = "feature_selection_test" THEN runModels ELSE preprocessors

IsTest == func # "randomized_search"

\* the loops have a current (outer, inner) pair
HasPair ==
    /\ outerPos < Len(OuterList)
    /\ loopPos < Len(InnerList)

CurOuter == OuterList[outerPos + 1]
CurInner == InnerList[loopPos + 1]

\* moving on to the next pair
AdvancePair ==
    IF loopPos + 1 < Len(InnerList)
    THEN /\ loopPos' = loopPos + 1
         /\ outerPos' = outerPos
    ELSE /\ loopPos' = 0
         /\ outerPos' = outerPos + 1

\* line 279 with the `not` dropped from the membership test
SkipsPairInverted(imputer, name) ==
    imputer = "none" /\ name \in HANDLE_MISSINGS_MODELS

\* line 279: the pair is skipped
SkipsPair(imputer, name) ==
    imputer = "none" /\ name \notin HANDLE_MISSINGS_MODELS

Skipped ==
    /\ func = "imputation_test"
    /\ SkipsPair(CurInner, ModelName(CurOuter))

\* the record one iteration appends (ROC_AUC, Time[s] and Parameters come
\* from the library and the model object and steer nothing)
Record ==
    IF func = "imputation_test"
    THEN [Model |-> ModelName(CurOuter), Tag |-> CurInner, Thr |-> 0]
    ELSE IF func = "cat_encoding_test"
    THEN [Model |-> ModelName(CurOuter), Tag |-> CurInner, Thr |-> 0]
    ELSE [Model |-> ModelName(CurInner), Tag |-> "Threshold",
          Thr |-> Round4(CurOuter)]

\* lines 279-280: imputation_test skips the pair without a fit
TestSkip ==
    /\ UNCHANGED <<cmVars, foldVars, loadVars>>
    /\ runPc = "running"
    /\ IsTest
    /\ HasPair
    /\ Skipped
    /\ AdvancePair
    /\ UNCHANGED <<func, runModels, preprocessors, thresholds, nGrids, pathArg,
                   addArg, results, testScores, artifacts, attempts, libRaised,
                   runPc, runExc, funcRet, wrapRet, csvFile, pklFile,
                   warnCalls, warnShown, warnFilters>>

\* a variant of TestFitRaises that swallows the error and goes on with the
\* next pair
TestFitRaisesSwallowed ==
    /\ UNCHANGED <<cmVars, foldVars, loadVars>>
    /\ runPc = "running"
    /\ IsTest
    /\ HasPair
    /\ ~Skipped
    /\ attempts' = Append(attempts, <<outerPos + 1, loopPos + 1>>)
    /\ libRaised' = TRUE
    /\ AdvancePair
    /\ UNCHANGED <<func, runModels, preprocessors, thresholds, nGrids, pathArg,
                   addArg, results, testScores, artifacts, runPc, runExc,
                   funcRet, wrapRet, csvFile, pklFile, warnCalls, warnShown,
                   warnFilters>>

\* cv_scores (cross_validate) returns: the record is tagged and appended
TestFitReturns ==
    /\ UNCHANGED <<cmVars, foldVars, loadVars>>
    /\ runPc = "running"
    /\ IsTest
    /\ HasPair
    /\ ~Skipped
    /\ attempts' = Append(attempts, <<outerPos + 1, loopPos + 1>>)
    /\ results' = Append(results, Record)
    /\ AdvancePair
    /\ UNCHANGED <<func, runModels, preprocessors, thresholds, nGrids, pathArg,
                   addArg, testScores, artifacts, libRaised, runPc, runExc,
                   funcRet, wrapRet, csvFile, pklFile, warnCalls, warnShown,
                   warnFilters>>

\* cv_scores (cross_validate) raises: nothing catches it, neither in the
\* function nor in the wrapper (line 231)
TestFitRaises ==
    /\ UNCHANGED <<cmVars, foldVars, loadVars>>
    /\ runPc = "running"
    /\ IsTest
    /\ HasPair
    /\ ~Skipped
    /\ attempts' = Append(attempts, <<outerPos + 1, loopPos + 1>>)
    /\ libRaised' = TRUE
    /\ runPc' = "raised"
    /\ runExc' = "LibraryError"
    /\ UNCHANGED <<func, runModels, preprocessors, thresholds, nGrids, pathArg,
                   addArg, outerPos, loopPos, results, testScores, artifacts,
                   funcRet, wrapRet, csvFile, pklFile, warnCalls, warnShown,
                   warnFilters>>

\* the loops are over (an empty inner list leaves every outer iteration
\* without a fit): create_results_dataframe(results) is returned
TestReturns ==
    /\ UNCHANGED <<cmVars, foldVars, loadVars>>
    /\ runPc = "running"
    /\ IsTest
    /\ (outerPos >= Len(OuterList) \/ InnerList = <<>>)
    /\ runPc' = "returned"
    /\ funcRet' = [kind |-> "frame", rows |-> results, extra |-> {}]
    /\ UNCHANGED <<func, runModels, preprocessors, thresholds, nGrids, pathArg,
                   addArg, outerPos, loopPos, results, testScores, artifacts,
                   attempts, libRaised, runExc, wrapRet, csvFile, pklFile,
                   warnCalls, warnShown, warnFilters>>

\* randomized_search: zip(models, grids)
SearchHasNext == outerPos < Len(runModels) /\ outerPos < nGrids

\* lines 491-523: optimizer.fit returns; the result, the scores and the
\* artifact of the model are recorded
SearchFitReturns ==
    /\ UNCHANGED <<cmVars, foldVars, loadVars>>
    /\ runPc = "running"
    /\ func = "randomized_search"
    /\ SearchHasNext
    /\ LET name == runModels[outerPos + 1].cls
       IN /\ results' = Append(results, [Model |-> name, Tag |-> "-", Thr |-> 0])
          /\ testScores' = testScores \cup {name}
          /\ artifacts' = artifacts \cup {name}
    /\ attempts' = Append(attempts, <<outerPos + 1, 1>>)
    /\ outerPos' = outerPos + 1
    /\ UNCHANGED <<func, runModels, preprocessors, thresholds, nGrids, pathArg,
                   addArg, loopPos, libRaised, runPc, runExc, funcRet, wrapRet,
                   csvFile, pklFile, warnCalls, warnShown, warnFilters>>

\* line 505: optimizer.fit raises (error_score="raise")
SearchFitRaises ==
    /\ UNCHANGED <<cmVars, foldVars, loadVars>>
    /\ runPc = "running"
    /\ func = "randomized_search"
    /\ SearchHasNext
    /\ attempts' = Append(attempts, <<outerPos + 1, 1>>)
    /\ libRaised' = TRUE
    /\ runPc' = "raised"
    /\ runExc' = "LibraryError"
    /\ UNCHANGED <<func, runModels, preprocessors, thresholds, nGrids, pathArg,
                   addArg, outerPos, loopPos, results, testScores, artifacts,
                   funcRet, wrapRet, csvFile, pklFile, warnCalls, warnShown,
                   warnFilters>>

\* line 525: the 2-tuple (results frame, test_scores)
SearchReturns ==
    /\ UNCHANGED <<cmVars, foldVars, loadVars>>
    /\ runPc = "running"
    /\ func = "randomized_search"
    /\ ~SearchHasNext
    /\ runPc' = "returned"
    /\ funcRet' = [kind |-> "tuple", rows |-> results, extra |-> testScores]
    /\ UNCHANGED <<func, runModels, preprocessors, thresholds, nGrids, pathArg,
                   addArg, outerPos, loopPos, results, testScores, artifacts,
                   attempts, libRaised, runExc, wrapRet, csvFile, pklFile,
                   warnCalls, warnShown, warnFilters>>

(***************************************************************************)
(* save_result_data.wrapper, lines 233-250, after func returned.           *)
(***************************************************************************)
\* warnings.warn: the first filter decides; "ignore" drops the warning
Delivered(filters) == Head(filters) # "ignore"

\* Python truth value of the additional results (a dict: false when empty)
ExtraTruthy(ret) == ret.kind = "tuple" /\ ret.extra # {}

WrapperSaves ==
    /\ UNCHANGED <<cmVars, foldVars, loadVars>>
    /\ runPc = "returned"
    /\ LET save_results_path == KwargsGet(pathArg)
           save_additional_results_path == KwargsGet(addArg)
       IN /\ IF Truthy(save_results_path)
             THEN /\ csvFile' = [written |-> TRUE, rows |-> funcRet.rows]
                  /\ UNCHANGED <<warnCalls, warnShown>>
             ELSE /\ warnCalls' = warnCalls + 1
                  /\ warnShown' = IF Delivered(warnFilters)
                                  THEN warnShown + 1 ELSE warnShown
                  /\ UNCHANGED csvFile
          /\ IF ExtraTruthy(funcRet) /\ Truthy(save_additional_results_path)
             THEN pklFile' = [written |-> TRUE, keys |-> funcRet.extra]
             ELSE UNCHANGED pklFile
    /\ wrapRet' = [kind |-> "frame", rows |-> funcRet.rows, extra |-> {}]
    /\ runPc' = "done"
    /\ UNCHANGED <<func, runModels, preprocessors, thresholds, nGrids, pathArg,
                   addArg, outerPos, loopPos, results, testScores, artifacts,
                   attempts, libRaised, runExc, funcRet, warnFilters>>

RunNext ==
    \/ TestSkip
    \/ TestFitReturns
    \/ TestFitRaises
    \/ TestReturns
    \/ SearchFitReturns
    \/ SearchFitRaises
    \/ SearchReturns
    \/ WrapperSaves

(***************************************************************************)
(* evaluate_discrimination_thresholds and its parallel process_fold tasks. *)
(* The tasks of one Parallel call run in any interleaving; they are handed *)
(* the same X, y and estimator objects.                                    *)
(***************************************************************************)
Folds == 1..N_SPLITS

NoResult == <<0, 0>>

\* the `thresholds` list tried with each data set
ThresholdLists == <<<<30, 50, 70>>, <<70, 50>>>>

\* the data sets tried: per fold the test labels and the probabilities of
\* the positive class
FoldData(y_test, y_proba) == [y_test |-> y_test, y_proba |-> y_proba]

DataSets ==
    <<<<FoldData(<<1, 1, 0, 0>>, <<80, 60, 40, 20>>),
        FoldData(<<1, 1, 0, 0>>, <<90, 40, 60, 10>>),
        FoldData(<<1, 1, 0, 0>>, <<70, 55, 35, 65>>),
        FoldData(<<1, 1, 0, 0>>, <<45, 85, 25, 50>>),
        FoldData(<<1, 1, 0, 0>>, <<60, 30, 20, 75>>)>>,
      <<FoldData(<<1, 0, 0, 0>>, <<20, 10, 10, 10>>),
        FoldData(<<0, 1, 0, 0>>, <<55, 65, 75, 35>>),
        FoldData(<<0, 0, 1, 0>>, <<30, 30, 95, 80>>),
        FoldData(<<0, 0, 0, 1>>, <<50, 50, 50, 50>>),
        FoldData(<<1, 0, 0, 1>>, <<70, 45, 25, 60>>)>> >>

\* line 672: a returned pair is (test labels of a fold, probabilities of the
\* copy that made it); a pair names the fold and the fold its copy was
\* fitted on
YTest(pair) == foldData[pair[1]].y_test

YProba(pair) ==
    IF pair[2] \in Folds
    THEN foldData[pair[2]].y_proba
    ELSE [i \in 1..Len(foldData[pair[1]].y_test) |-> 0]

\* src.utils.to_labels: probabilities at or above the cutoff become label 1
to_labels(y_proba, threshold) ==
    [i \in 1..Len(y_proba) |-> IF y_proba[i] >= threshold THEN 1 ELSE 0]

\* samples with true label t that were given label p
Count(y_true, y_pred, t, p) ==
    Cardinality({i \in 1..Len(y_true) : y_true[i] = t /\ y_pred[i] = p})

\* a ratio in hundredths; the metrics return 0 for an empty denominator
Ratio(n, d) == IF d = 0 THEN 0 ELSE (100 * n) \div d

\* the whole part of the square root of n, sought between lo and hi
RECURSIVE ISqrtIn(_, _, _)
ISqrtIn(lo, hi, n) ==
    IF lo = hi THEN lo
    ELSE LET mid == (lo + hi + 1) \div 2
         IN  IF mid * mid <= n THEN ISqrtIn(mid, hi, n)
             ELSE ISqrtIn(lo, mid - 1, n)

ISqrt(n) == ISqrtIn(0, 100, n)

precision_score(y_true, y_pred) ==
    Ratio(Count(y_true, y_pred, 1, 1),
          Count(y_true, y_pred, 1, 1) + Count(y_true, y_pred, 0, 1))

recall_score(y_true, y_pred) ==
    Ratio(Count(y_true, y_pred, 1, 1),
          Count(y_true, y_pred, 1, 1) + Count(y_true, y_pred, 1, 0))

f1_score(y_true, y_pred) ==
    Ratio(2 * Count(y_true, y_pred, 1, 1),
          2 * Count(y_true, y_pred, 1, 1) + Count(y_true, y_pred, 0, 1)
              + Count(y_true, y_pred, 1, 0))

\* the root of the product of the recalls of the two classes
geometric_mean_score(y_true, y_pred) ==
    ISqrt(recall_score(y_true, y_pred)
          * Ratio(Count(y_true, y_pred, 0, 0),
                  Count(y_true, y_pred, 0, 0) + Count(y_true, y_pred, 0, 1)))

RECURSIVE SeqSum(_)
SeqSum(s) == IF s = <<>> THEN 0 ELSE Head(s) + SeqSum(Tail(s))

\* np.mean
Mean(s) == SeqSum(s) \div Len(s)

\* np.argmax: the first position of the largest value
ArgMax(s) ==
    CHOOSE i \in 1..Len(s) :
        /\ \A j \in 1..Len(s) : s[j] <= s[i]
        /\ \A j \in 1..(i - 1) : s[j] < s[i]

\* lines 675-678: the metric of that name
Metric(name, y_true, y_pred) ==
    CASE name = "f1" -> f1_score(y_true, y_pred)
      [] name = "precision" -> precision_score(y_true, y_pred)
      [] name = "recall" -> recall_score(y_true, y_pred)
      [] name = "g_mean" -> geometric_mean_score(y_true, y_pred)

\* lines 672-683: one metric per pair of results_per_fold, in list order
MetricCv(name, results_per_fold, threshold) ==
    [i \in 1..Len(results_per_fold) |->
        Metric(name, YTest(results_per_fold[i]),
               to_labels(YProba(results_per_fold[i]), threshold))]

\* lines 666-688: per threshold the mean of the metric over the folds
Scores(name, results_per_fold) ==
    [j \in 1..Len(evalThresholds) |->
        Mean(MetricCv(name, results_per_fold, evalThresholds[j]))]

\* lines 693-694
ScoreLists(results_per_fold) ==
    <<Scores("f1", results_per_fold),
      Scores("precision", results_per_fold),
      Scores("recall", results_per_fold),
      Scores("g_mean", results_per_fold)>>

\* line 690
OptimalThreshold(results_per_fold) ==
    evalThresholds[ArgMax(Scores("g_mean", results_per_fold))]

EvalInit ==
    /\ nEstimators \in 0..MaxEstimators
    /\ \E c \in 1..Len(DataSets) :
          /\ evalThresholds = ThresholdLists[c]
          /\ foldData = DataSets[c]
    /\ optimal_thresholds = <<>>
    /\ callerIndex \in [{"X", "y"} -> {"range", "custom"}]
    /\ localIndex = [o \in {"X", "y"} |-> "none"]
    /\ estFitted = [e \in 1..nEstimators |-> 0]
    /\ curEst = 0
    /\ evalPc = "start"
    /\ taskPc = [k \in Folds |-> "pending"]
    /\ copyFitted = [k \in Folds |-> 0]
    /\ foldResults = [k \in Folds |-> NoResult]
    /\ finished = <<>>
    /\ resultsPerFold = <<>>
    /\ evalResults = <<>>
    /\ fitLog = {}

\* lines 647-653: X, y = X.copy(), y.copy(), then reset_index(inplace=True)
\* on the copies
EvalStart ==
    /\ UNCHANGED <<cmVars, runVars, loadVars>>
    /\ evalPc = "start"
    /\ localIndex' = [o \in {"X", "y"} |-> "range"]
    /\ curEst' = 1
    /\ evalPc' = "dispatch"
    /\ UNCHANGED <<evalThresholds, foldData, optimal_thresholds,
                   nEstimators, callerIndex, estFitted, taskPc, copyFitted,
                   foldResults, finished, resultsPerFold, evalResults, fitLog>>

\* lines 655-664: the next estimator; one task per fold of CV_SCHEME.split
EvalDispatch ==
    /\ UNCHANGED <<cmVars, runVars, loadVars>>
    /\ evalPc = "dispatch"
    /\ curEst <= nEstimators
    /\ taskPc' = [k \in Folds |-> "pending"]
    /\ copyFitted' = [k \in Folds |-> 0]
    /\ foldResults' = [k \in Folds |-> NoResult]
    /\ finished' = <<>>
    /\ evalPc' = "parallel"
    /\ UNCHANGED <<evalThresholds, foldData, optimal_thresholds,
                   nEstimators, callerIndex, localIndex, estFitted, curEst,
                   resultsPerFold, evalResults, fitLog>>

\* lines 617-620: .iloc builds the task's own train and test frames
TaskSlice(k) ==
    /\ UNCHANGED <<cmVars, runVars, loadVars>>
    /\ evalPc = "parallel"
    /\ taskPc[k] = "pending"
    /\ taskPc' = [taskPc EXCEPT ![k] = "sliced"]
    /\ UNCHANGED <<evalThresholds, foldData, optimal_thresholds,
                   nEstimators, callerIndex, localIndex, estFitted, curEst,
                   evalPc, copyFitted, foldResults, finished, resultsPerFold,
                   evalResults, fitLog>>

\* line 622: estimator_copy = deepcopy(estimator), in the state the
\* estimator is in at that moment
TaskCopy(k) ==
    /\ UNCHANGED <<cmVars, runVars, loadVars>>
    /\ evalPc = "parallel"
    /\ taskPc[k] = "sliced"
    /\ copyFitted' = [copyFitted EXCEPT ![k] = estFitted[curEst]]
    /\ taskPc' = [taskPc EXCEPT ![k] = "copied"]
    /\ UNCHANGED <<evalThresholds, foldData, optimal_thresholds,
                   nEstimators, callerIndex, localIndex, estFitted, curEst,
                   evalPc, foldResults, finished, resultsPerFold, evalResults,
                   fitLog>>

\* a variant that fits the estimator it was handed instead of the copy
TaskFitShared(k) ==
    /\ UNCHANGED <<cmVars, runVars, loadVars>>
    /\ evalPc = "parallel"
    /\ taskPc[k] = "copied"
    /\ estFitted' = [estFitted EXCEPT ![curEst] = k]
    /\ fitLog' = fitLog \cup {<<curEst, k, "estimator", 0>>}
    /\ taskPc' = [taskPc EXCEPT ![k] = "fitted"]
    /\ UNCHANGED <<evalThresholds, foldData, optimal_thresholds,
                   nEstimators, callerIndex, localIndex, curEst, evalPc,
                   copyFitted, foldResults, finished, resultsPerFold,
                   evalResults>>

\* line 623: estimator_copy.fit(X_train, y_train)
TaskFit(k) ==
    /\ UNCHANGED <<cmVars, runVars, loadVars>>
    /\ evalPc = "parallel"
    /\ taskPc[k] = "copied"
    /\ copyFitted' = [copyFitted EXCEPT ![k] = k]
    /\ fitLog' = fitLog \cup {<<curEst, k, "estimator_copy", k>>}
    /\ taskPc' = [taskPc EXCEPT ![k] = "fitted"]
    /\ UNCHANGED <<evalThresholds, foldData, optimal_thresholds,
                   nEstimators, callerIndex, localIndex, estFitted, curEst,
                   evalPc, foldResults, finished, resultsPerFold, evalResults>>

\* lines 624-626: the task returns (y_test of its fold, probabilities of
\* the model its copy holds)
TaskPredict(k) ==
    /\ UNCHANGED <<cmVars, runVars, loadVars>>
    /\ evalPc = "parallel"
    /\ taskPc[k] = "fitted"
    /\ foldResults' = [foldResults EXCEPT ![k] = <<k, copyFitted[k]>>]
    /\ finished' = Append(finished, k)
    /\ taskPc' = [taskPc EXCEPT ![k] = "done"]
    /\ UNCHANGED <<evalThresholds, foldData, optimal_thresholds,
                   nEstimators, callerIndex, localIndex, estFitted, curEst,
                   evalPc, copyFitted, resultsPerFold, evalResults, fitLog>>

\* a variant whose results_per_fold lists the tasks' results in the order
\* in which the tasks completed
EvalCollectAsCompleted ==
    /\ UNCHANGED <<cmVars, runVars, loadVars>>
    /\ evalPc = "parallel"
    /\ \A k \in Folds : taskPc[k] = "done"
    /\ resultsPerFold' = [i \in Folds |-> foldResults[finished[i]]]
    /\ evalResults' = Append(evalResults, ScoreLists(resultsPerFold'))
    /\ optimal_thresholds' =
           Append(optimal_thresholds, OptimalThreshold(resultsPerFold'))
    /\ curEst' = curEst + 1
    /\ evalPc' = "dispatch"
    /\ UNCHANGED <<evalThresholds, foldData, nEstimators, callerIndex,
                   localIndex, estFitted, taskPc, copyFitted, foldResults,
                   finished, fitLog>>

\* lines 661-694: Parallel returns the tasks' results as a list in the
\* order the tasks were submitted, which is the fold order of
\* CV_SCHEME.split; the estimator is scored from that list
EvalCollect ==
    /\ UNCHANGED <<cmVars, runVars, loadVars>>
    /\ evalPc = "parallel"
    /\ \A k \in Folds : taskPc[k] = "done"
    /\ resultsPerFold' = [k \in Folds |-> foldResults[k]]
    /\ evalResults' = Append(evalResults, ScoreLists(resultsPerFold'))
    /\ optimal_thresholds' =
           Append(optimal_thresholds, OptimalThreshold(resultsPerFold'))
    /\ curEst' = curEst + 1
    /\ evalPc' = "dispatch"
    /\ UNCHANGED <<evalThresholds, foldData, nEstimators, callerIndex,
                   localIndex, estFitted, taskPc, copyFitted, foldResults,
                   finished, fitLog>>

\* lines 696-698
EvalReturn ==
    /\ UNCHANGED <<cmVars, runVars, loadVars>>
    /\ evalPc = "dispatch"
    /\ curEst > nEstimators
    /\ evalPc' = "done"
    /\ UNCHANGED <<evalThresholds, foldData, optimal_thresholds,
                   nEstimators, callerIndex, localIndex, estFitted, curEst,
                   taskPc, copyFitted, foldResults, finished, resultsPerFold,
                   evalResults, fitLog>>

EvalNext ==
    \/ EvalStart
    \/ EvalDispatch
    \/ \E k \in Folds : TaskSlice(k)
    \/ \E k \in Folds : TaskCopy(k)
    \/ \E k \in Folds : TaskFit(k)
    \/ \E k \in Folds : TaskPredict(k)
    \/ EvalCollect
    \/ EvalReturn

FoldIdle ==
    /\ nEstimators = 0
    /\ evalThresholds = <<>>
    /\ foldData = <<>>
    /\ optimal_thresholds = <<>>
    /\ callerIndex = [o \in {"X", "y"} |-> "range"]
    /\ localIndex = [o \in {"X", "y"} |-> "none"]
    /\ estFitted = <<>>
    /\ curEst = 0
    /\ evalPc = "idle"
    /\ taskPc = [k \in Folds |-> "pending"]
    /\ copyFitted = [k \in Folds |-> 0]
    /\ foldResults = [k \in Folds |-> NoResult]
    /\ finished = <<>>
    /\ resultsPerFold = <<>>
    /\ evalResults = <<>>
    /\ fitLog = {}

(***************************************************************************)
(* load_results_from_folder and create_results_dataframe.                  *)
(***************************************************************************)
\* a file of the folder: the end of its name and the rows it holds
File(ext, rows) == [ext |-> ext, rows |-> rows]

FolderFiles ==
    {File(".csv", 1), File(".csv", 2), File(".CSV", 1), File(".txt", 1)}

\* file_name.endswith(".csv")
EndsWithCsv(f) == f.ext = ".csv"

NoFrame == [kind |-> "none", rows |-> 0]
Frame(rows) == [kind |-> "frame", rows |-> rows]

RECURSIVE SumRows(_)
SumRows(frames) ==
    IF frames = <<>> THEN 0 ELSE Head(frames) + SumRows(Tail(frames))

LoadInit ==
    /\ folder \in SeqsUpTo(FolderFiles, MaxFiles)
    /\ listPos = 0
    /\ loaded = <<>>
    /\ loadPc = "loop"
    /\ loadExc = "none"
    /\ loadRet = NoFrame

\* line 542: a file that is no .csv file is passed over
LoadSkipsFile ==
    /\ UNCHANGED <<cmVars, runVars, foldVars>>
    /\ loadPc = "loop"
    /\ listPos < Len(folder)
    /\ ~EndsWithCsv(folder[listPos + 1])
    /\ listPos' = listPos + 1
    /\ UNCHANGED <<folder, loaded, loadPc, loadExc, loadRet>>

\* lines 542-545: a .csv file is read and its frame appended
LoadReadsCsv ==
    /\ UNCHANGED <<cmVars, runVars, foldVars>>
    /\ loadPc = "loop"
    /\ listPos < Len(folder)
    /\ EndsWithCsv(folder[listPos + 1])
    /\ loaded' = Append(loaded, folder[listPos + 1].rows)
    /\ listPos' = listPos + 1
    /\ UNCHANGED <<folder, loadPc, loadExc, loadRet>>

\* line 547 with lines 201-202, 206: one frame was read
LoadCreatesFromOne ==
    /\ UNCHANGED <<cmVars, runVars, foldVars>>
    /\ loadPc = "loop"
    /\ listPos = Len(folder)
    /\ Len(loaded) = 1
    /\ loadRet' = Frame(loaded[1])
    /\ loadPc' = "done"
    /\ UNCHANGED <<folder, listPos, loaded, loadExc>>

\* line 547 with lines 203-204, 206: several frames are concatenated
LoadCreatesFromMany ==
    /\ UNCHANGED <<cmVars, runVars, foldVars>>
    /\ loadPc = "loop"
    /\ listPos = Len(folder)
    /\ Len(loaded) > 1
    /\ loadRet' = Frame(SumRows(loaded))
    /\ loadPc' = "done"
    /\ UNCHANGED <<folder, listPos, loaded, loadExc>>

\* line 547 with line 206: with no argument neither branch of lines 201-204
\* binds df, and `return df` raises UnboundLocalError
LoadCreatesFromNone ==
    /\ UNCHANGED <<cmVars, runVars, foldVars>>
    /\ loadPc = "loop"
    /\ listPos = Len(folder)
    /\ Len(loaded) = 0
    /\ loadExc' = "UnboundLocalError"
    /\ loadPc' = "raised"
    /\ UNCHANGED <<folder, listPos, loaded, loadRet>>

LoadNext ==
    \/ LoadSkipsFile
    \/ LoadReadsCsv
    \/ LoadCreatesFromOne
    \/ LoadCreatesFromMany
    \/ LoadCreatesFromNone

LoadIdle ==
    /\ folder = <<>>
    /\ listPos = 0
    /\ loaded = <<>>
    /\ loadPc = "idle"
    /\ loadExc = "none"
    /\ loadRet = NoFrame

(***************************************************************************)
(* Specifications: one per entry point; the other parts stay idle.         *)
(***************************************************************************)
CmIdle ==
    /\ heap = <<>>
    /\ base_models = <<>>
    /\ model_params = <<>>
    /\ models = <<>>
    /\ zipPos = 0
    /\ innerPos = 0
    /\ cmPc = "idle"
    /\ cmExc = "none"
    /\ lastCall = NoCall
    /\ calls = {}
    /\ edits = 0

RunIdle ==
    /\ func = "none"
    /\ runModels = <<>>
    /\ preprocessors = <<>>
    /\ thresholds = <<>>
    /\ nGrids = 0
    /\ pathArg = NotPassed
    /\ addArg = NotPassed
    /\ outerPos = 0
    /\ loopPos = 0
    /\ results = <<>>
    /\ testScores = {}
    /\ artifacts = {}
    /\ attempts = <<>>
    /\ libRaised = FALSE
    /\ runPc = "idle"
    /\ runExc = "none"
    /\ funcRet = NoReturn
    /\ wrapRet = NoReturn
    /\ csvFile = NoFile
    /\ pklFile = NoPkl
    /\ warnCalls = 0
    /\ warnShown = 0
    /\ warnFilters = <<"ignore", "default">>

CreateModelsInit == CmInit /\ RunIdle /\ FoldIdle /\ LoadIdle

SpecCreateModels == CreateModelsInit /\ [][CmNext]_vars

RunnerInit == RunInit /\ CmIdle /\ FoldIdle /\ LoadIdle

SpecRunner == RunnerInit /\ [][RunNext]_vars

ThresholdsInit == EvalInit /\ CmIdle /\ RunIdle /\ LoadIdle

SpecThresholds == ThresholdsInit /\ [][EvalNext]_vars

LoaderInit == LoadInit /\ CmIdle /\ RunIdle /\ FoldIdle

SpecLoader == LoaderInit /\ [][LoadNext]_vars

(***************************************************************************)
(* Properties of create_models and set_model_params.                       *)
(***************************************************************************)
IsDictItem(item) == item.kind = "dict"

DictsIn(elem) ==
    IF elem.kind = "dict" THEN 1
    ELSE IF elem.kind = "list"
         THEN Cardinality({k \in 1..Len(elem.items) : IsDictItem(elem.items[k])})
         ELSE 0

RECURSIVE TotalDicts(_)
TotalDicts(mp) ==
    IF mp = <<>> THEN 0 ELSE DictsIn(Head(mp)) + TotalDicts(Tail(mp))

\* an element is a dict or a list of dicts
ElemWellFormed(elem) ==
    \/ elem.kind = "dict"
    \/ /\ elem.kind = "list"
       /\ \A k \in 1..Len(elem.items) : IsDictItem(elem.items[k])

WellFormed(mp) == \A k \in 1..Len(mp) : ElemWellFormed(mp[k])

\* C1 as stated: when create_models returns for base models and a non-empty
\* model_params of dicts and lists of dicts, the returned list has exactly
\* as many models as parameter dicts were supplied.
C1_OneModelPerParamDict ==
    (cmPc = "done" /\ base_models # <<>> /\ model_params # <<>>
        /\ WellFormed(model_params))
        => Len(models) = TotalDicts(model_params)

\* C1 amended: the returned list is the base models themselves followed by
\* one new model per parameter dict; with model_params no longer than
\* base_models its length is len(base_models) plus the number of dicts.
C1_BaseModelsPlusOnePerParamDict ==
    (cmPc = "done" /\ WellFormed(model_params)
        /\ Len(model_params) <= Len(base_models))
        => /\ Len(models) = Len(base_models) + TotalDicts(model_params)
           /\ SubSeq(models, 1, Len(base_models)) = base_models

C1_Witness ==
    /\ cmPc = "done"
    /\ WellFormed(model_params)
    /\ Len(model_params) = 2
    /\ Len(base_models) = 2
    /\ model_params[1].kind = "list"
    /\ model_params[2].kind = "dict"
    /\ TotalDicts(model_params) = 3
    /\ Len(models) = 5

\* C7 as stated: whenever some element of model_params is neither a dict nor
\* a list of dicts (here: each element has a base model it is paired with),
\* the call ends with ValueError.
C7_InvalidElementRaisesValueError ==
    (cmPc \in {"done", "raised"} /\ ~WellFormed(model_params)
        /\ Len(model_params) <= Len(base_models))
        => cmExc = "ValueError"

\* C8: a set_model_params call returns a fresh instance that is the original
\* with the given parameters set, leaves every existing object (the original
\* included) as it was, and a later change to the returned instance leaves
\* the original it was copied from as it was.
C8_SetModelParamsCopies ==
    [][ /\ (CmDict \/ CmInnerDict) =>
            LET c == lastCall'
            IN /\ c.ret \notin DOMAIN heap
               /\ \A id \in DOMAIN heap : heap'[id] = heap[id]
               /\ heap'[c.ret].cls = heap[c.orig].cls
               /\ \A k \in DOMAIN heap[c.orig].params :
                     heap'[c.ret].params[k] =
                        IF k = "n_estimators" THEN c.val
                        ELSE heap[c.orig].params[k]
        /\ CallerEdits =>
            \A c \in calls :
                c[2] = lastCall'.ret => heap'[c[1]] = heap[c[1]]
      ]_vars

C8_Witness ==
    /\ lastCall.op = "edit"
    /\ \E c \in calls :
          /\ c[2] = lastCall.ret
          /\ heap[c[2]].params["n_estimators"] = lastCall.val
          /\ heap[c[1]].params["n_estimators"] # lastCall.val
          /\ \E d \in calls : d[2] = c[1]

(***************************************************************************)
(* Properties of the decorated runners and of save_result_data.            *)
(***************************************************************************)
\* a path argument was supplied with a non-empty value, either way
PathGiven(arg) == arg.mode # "absent" /\ Truthy(arg.value)

\* index pairs (outer, inner) of a cross-product, outer-major
CrossIdx(no, ni) ==
    [n \in 1..(no * ni) |-> <<((n - 1) \div ni) + 1, ((n - 1) % ni) + 1>>]

\* the pairs imputation_test has to cross-validate
KeptPair(pr) ==
    LET name == ModelName(runModels[pr[1]])
    IN ~(preprocessors[pr[2]] = "none" /\ name \notin HANDLE_MISSINGS_MODELS)

\* the external fit/score calls a complete run makes, in order
ExpectedAttempts ==
    IF func = "randomized_search"
    THEN [k \in 1..(IF Len(runModels) < nGrids THEN Len(runModels) ELSE nGrids)
            |-> <<k, 1>>]
    ELSE IF func = "imputation_test"
    THEN SelectSeq(CrossIdx(Len(runModels), Len(preprocessors)), KeptPair)
    ELSE CrossIdx(Len(OuterList), Len(InnerList))

\* C2 as stated: a decorated function that completes without a save path
\* (absent, None or empty) emits exactly one warning, writes no CSV file and
\* still returns the results table.
C2_NoPathWarnsOnce ==
    (runPc = "done" /\ ~PathGiven(pathArg))
        => /\ warnShown = 1
           /\ ~csvFile.written
           /\ wrapRet.kind = "frame"
           /\ wrapRet.rows = results

\* C3: once an external fit/score call has raised, the caller sees that
\* error, the failed step was tried once and no later step was run, nothing
\* was returned, neither the CSV nor the PKL file was written and no
\* warning was raised.
C3_ErrorPropagates ==
    /\ Len(attempts) <= Len(ExpectedAttempts)
    /\ attempts = SubSeq(ExpectedAttempts, 1, Len(attempts))
    /\ libRaised =>
          /\ runPc = "raised"
          /\ runExc = "LibraryError"
          /\ Len(attempts) = Len(results) + 1
          /\ funcRet = NoReturn
          /\ wrapRet = NoReturn
          /\ ~csvFile.written
          /\ ~pklFile.written
          /\ warnCalls = 0
          /\ warnShown = 0

C3_Witness ==
    /\ runPc = "raised"
    /\ libRaised
    /\ Len(results) >= 1
    /\ Len(attempts) < Len(ExpectedAttempts)
    /\ pathArg = [mode |-> "keyword", value |-> "out.csv"]

\* the rows of a completed cat_encoding_test: model-major, tagged with the
\* encoder name
CatRowsOk(rows) ==
    LET np == Len(preprocessors)
    IN /\ Len(rows) = Len(runModels) * np
       /\ \A n \in 1..Len(rows) :
             /\ rows[n].Model = ModelName(runModels[((n - 1) \div np) + 1])
             /\ rows[n].Tag = preprocessors[((n - 1) % np) + 1]

\* the rows of a completed feature_selection_test: threshold-major, one per
\* (threshold, model); Tagged(row, threshold) says how the row is tagged
FsRowsOk(rows, Tagged(_, _)) ==
    LET nm == Len(runModels)
    IN /\ Len(rows) = Len(thresholds) * nm
       /\ \A n \in 1..Len(rows) :
             /\ rows[n].Model = ModelName(runModels[((n - 1) % nm) + 1])
             /\ Tagged(rows[n], thresholds[((n - 1) \div nm) + 1])

TaggedExactly(row, t) == row.Thr = t

\* the multiple of 0.0001 nearest to the threshold
TaggedRounded(row, t) ==
    /\ row.Thr % 10 = 0
    /\ row.Thr - t <= 5
    /\ t - row.Thr <= 5

\* C5 as stated: a completed cat_encoding_test holds len(models) *
\* len(preprocessors) records in model-major order, each tagged with its
\* encoder name, and a completed feature_selection_test holds
\* len(selection_thresholds) * len(models) records in threshold-major order,
\* each tagged with its threshold.
C5_CrossProductTaggedWithThreshold ==
    (runPc = "done")
        => /\ func = "cat_encoding_test" => CatRowsOk(wrapRet.rows)
           /\ func = "feature_selection_test"
                 => FsRowsOk(wrapRet.rows, TaggedExactly)

\* C5 amended: as stated, except that a feature_selection_test record is
\* tagged with its threshold rounded to 4 decimal places.
C5_CrossProductTaggedWithRoundedThreshold ==
    (runPc = "done")
        => /\ func = "cat_encoding_test" => CatRowsOk(wrapRet.rows)
           /\ func = "feature_selection_test"
                 => FsRowsOk(wrapRet.rows, TaggedRounded)

C5_Witness ==
    /\ runPc = "done"
    /\ func = "feature_selection_test"
    /\ thresholds = <<12, 2500>>
    /\ Len(runModels) = 2
    /\ runModels[1] # runModels[2]
    /\ Len(wrapRet.rows) = 4
    /\ wrapRet.rows[2].Thr = 10
    /\ wrapRet.rows[3].Thr = 2500

\* C6: a completed imputation_test holds exactly the (model, imputer) pairs
\* of the cross-product, model-major and once each, whose imputer is not
\* "none" or whose derived model name is in HANDLE_MISSINGS_MODELS; the
\* other pairs were never cross-validated, so no record has Imputation
\* "none" for a model outside HANDLE_MISSINGS_MODELS.
C6_ImputationSkipsNoneForOtherModels ==
    (runPc = "done" /\ func = "imputation_test")
        => LET kept == SelectSeq(CrossIdx(Len(runModels), Len(preprocessors)),
                                 KeptPair)
               rows == wrapRet.rows
           IN /\ Len(rows) = Len(kept)
              /\ attempts = kept
              /\ \A n \in 1..Len(rows) :
                    /\ rows[n].Model = ModelName(runModels[kept[n][1]])
                    /\ rows[n].Tag = preprocessors[kept[n][2]]
                    /\ (rows[n].Tag = "none"
                          => rows[n].Model \in HANDLE_MISSINGS_MODELS)

C6_Witness ==
    /\ runPc = "done"
    /\ func = "imputation_test"
    /\ runModels = <<Estimator("RandomForestClassifier", "-"),
                     Estimator("BalancedBaggingClassifier", "RandomUnderSampler")>>
    /\ preprocessors = <<"none", "SimpleImputer">>
    /\ Len(wrapRet.rows) = 3
    /\ wrapRet.rows[2].Tag = "none"
    /\ wrapRet.rows[2].Model = "BalancedBagging_UnderSampling"

\* C9 as stated: when the decorated function returned a 2-tuple and
\* save_additional_results_path was given, the additional data is saved to
\* the PKL file whatever its value, and the wrapper returns the primary
\* results only.
C9_AdditionalDataSaved ==
    (runPc = "done" /\ funcRet.kind = "tuple" /\ PathGiven(addArg))
        => /\ pklFile.written
           /\ pklFile.keys = funcRet.extra
           /\ wrapRet.kind = "frame"
           /\ wrapRet.rows = funcRet.rows

\* C10 as stated: when a non-empty save_results_path was supplied,
\* positionally or by keyword, the returned table is written as CSV and the
\* warning is not raised.
C10_GivenPathIsWritten ==
    (runPc = "done" /\ PathGiven(pathArg))
        => /\ csvFile.written
           /\ csvFile.rows = wrapRet.rows
           /\ warnCalls = 0

(***************************************************************************)
(* Properties of evaluate_discrimination_thresholds.                       *)
(***************************************************************************)
\* C4: in every interleaving of the process_fold tasks, every fit call is
\* made by a task on its own estimator_copy, a task's copy is only ever
\* fitted on that task's fold, the caller's estimators stay unfitted, and
\* the caller's X and y keep the index they came with.
C4_TasksShareNoMutableState ==
    /\ [](/\ \A f \in fitLog : f[3] = "estimator_copy" /\ f[4] = f[2]
          /\ \A k \in Folds : copyFitted[k] \in {0, k}
          /\ \A e \in 1..nEstimators : estFitted[e] = 0
          /\ \A k \in Folds : foldResults[k] \in {NoResult, <<k, k>>}
          /\ evalPc # "start" => localIndex = [o \in {"X", "y"} |-> "range"])
    /\ [][callerIndex' = callerIndex /\ estFitted' = estFitted]_vars

C4_Witness ==
    /\ evalPc = "parallel"
    /\ curEst = 2
    /\ callerIndex = [o \in {"X", "y"} |-> "custom"]
    /\ taskPc[1] = "fitted"
    /\ taskPc[2] = "pending"
    /\ taskPc[3] = "done"
    /\ taskPc[4] = "copied"
    /\ taskPc[5] = "fitted"
    /\ Cardinality(fitLog) = N_SPLITS + 3

\* the pairs of all folds in the fold order of the split
InFoldOrder == [k \in Folds |-> <<k, k>>]

C11_AlwaysReturnsDataFrame ==
    (loadPc \in {"done", "raised"})
        => /\ loadPc = "done"
           /\ loadExc = "none"
           /\ loadRet.kind = "frame"

=============================================================================
